---- MODULE Spec2Model ----
(***************************************************************************)
(* Model of package rut (src/rut.go): validation, parsing and formatting   *)
(* of Chilean RUTs.  A string is a sequence of one-character strings; the  *)
(* token NUL stands for the zero byte and "x" for a byte outside the RUT   *)
(* alphabet.  Go's int is modelled by the integers (no value the package   *)
(* computes here leaves the 32-bit range).                                 *)
(***************************************************************************)
EXTENDS Integers, Sequences, FiniteSets, TLC

VARIABLES text, rut, err, ok, dv, style, op

vars == <<text, rut, err, ok, dv, style, op>>

-----------------------------------------------------------------------------
(* Errors, styles, bytes *)

nil == "nil"
ErrInvalidFormat == "rut: invalid format"
ErrEmptyRUT == "rut: empty string"
ErrTooShort == "rut: too short (minimum 5 characters)"
ErrTooLong == "rut: too long (maximum 10 characters)"

FormatComplete == 0
FormatEscaped == 1
FormatWithDash == 2

NUL == "NUL"
DigitChars == <<"0", "1", "2", "3", "4", "5", "6", "7", "8", "9">>
DigitSet == {DigitChars[i] : i \in 1..10}
DigitChar(d) == DigitChars[d + 1]
DigitVal(c) == CHOOSE d \in 0..9 : DigitChars[d + 1] = c

\* byte(code): the bytes this model distinguishes, by ASCII code.
ByteOf(code) ==
  IF code >= 48 /\ code <= 57 THEN DigitChar(code - 48)
  ELSE IF code = 75 THEN "K"
  ELSE IF code = 107 THEN "k"
  ELSE IF code = 46 THEN "."
  ELSE IF code = 45 THEN "-"
  ELSE IF code = 0 THEN NUL
  ELSE "x"

multipliers == <<2, 3, 4, 5, 6, 7>>

ZeroRUT == [Number |-> 0, DV |-> NUL]

-----------------------------------------------------------------------------
(* strconv.Itoa and strconv.Atoi *)

RECURSIVE FormatUint(_)
FormatUint(u) ==
  IF u < 10 THEN <<DigitChar(u)>>
  ELSE Append(FormatUint(u \div 10), DigitChar(u % 10))

Itoa(i) == IF i < 0 THEN <<"-">> \o FormatUint(-i) ELSE FormatUint(i)

RECURSIVE AtoiDigits(_, _, _)
AtoiDigits(str, i, acc) ==
  IF i > Len(str) THEN [num |-> acc, err |-> FALSE]
  ELSE IF str[i] \notin DigitSet THEN [num |-> 0, err |-> TRUE]
  ELSE AtoiDigits(str, i + 1, acc * 10 + DigitVal(str[i]))

Atoi(str) ==
  IF str = <<>> THEN [num |-> 0, err |-> TRUE]
  ELSE IF str[1] \in {"-", "+"}
    THEN IF Len(str) = 1 THEN [num |-> 0, err |-> TRUE]
         ELSE LET r == AtoiDigits(str, 2, 0)
              IN  IF str[1] = "-" THEN [num |-> 0 - r.num, err |-> r.err] ELSE r
  ELSE AtoiDigits(str, 1, 0)

-----------------------------------------------------------------------------
(* isValidRUTChar, Parse *)

isValidRUTChar_KeepCase(c) ==
  IF c \in DigitSet \/ c \in {"k", "K"} THEN [char |-> c, ok |-> TRUE]
  ELSE [char |-> NUL, ok |-> FALSE]

isValidRUTChar(c) ==
  IF c \in DigitSet THEN [char |-> c, ok |-> TRUE]
  ELSE IF c = "k" \/ c = "K" THEN [char |-> "K", ok |-> TRUE]
  ELSE [char |-> NUL, ok |-> FALSE]

IsSeparator_DotOnly(c) == c = "."

IsSeparator(c) == c = "." \/ c = "-"

BufferFull_Eleven(n) == n >= 11

BufferFull(n) == n >= 12

\* The scan loop of Parse from index i (1-based) with the buffer raw[:n],
\* n = Len(raw).
RECURSIVE ScanLoop(_, _, _)
ScanLoop(s, i, raw) ==
  IF i > Len(s) THEN [raw |-> raw, err |-> nil]
  ELSE LET c == s[i] IN
    IF IsSeparator(c) THEN ScanLoop(s, i + 1, raw)
    ELSE IF BufferFull(Len(raw)) THEN [raw |-> raw, err |-> ErrTooLong]
    ELSE LET v == isValidRUTChar(c) IN
      IF ~v.ok THEN [raw |-> raw, err |-> ErrInvalidFormat]
      ELSE ScanLoop(s, i + 1, Append(raw, v.char))

LengthCheck_OffByOne(n) ==
  IF n <= 5 THEN ErrTooShort ELSE IF n >= 10 THEN ErrTooLong ELSE nil

LengthCheck_MaxNine(n) ==
  IF n < 5 THEN ErrTooShort ELSE IF n > 9 THEN ErrTooLong ELSE nil

LengthCheck(n) ==
  IF n < 5 THEN ErrTooShort ELSE IF n > 10 THEN ErrTooLong ELSE nil

MisplacedK(raw, n) == \E i \in 1..(n - 1) : raw[i] = "K"

ParseNumber_WithDV(raw, n) == Atoi(SubSeq(raw, 1, n))

ParseNumber(raw, n) == Atoi(SubSeq(raw, 1, n - 1))

Parse(s) ==
  IF s = <<>> THEN [rut |-> ZeroRUT, err |-> ErrEmptyRUT]
  ELSE LET sc == ScanLoop(s, 1, <<>>)
           n == Len(sc.raw)
       IN
    IF sc.err # nil THEN [rut |-> ZeroRUT, err |-> sc.err]
    ELSE IF LengthCheck(n) # nil THEN [rut |-> ZeroRUT, err |-> LengthCheck(n)]
    ELSE IF MisplacedK(sc.raw, n) THEN [rut |-> ZeroRUT, err |-> ErrInvalidFormat]
    ELSE LET a == ParseNumber(sc.raw, n) IN
      IF a.err THEN [rut |-> ZeroRUT, err |-> ErrInvalidFormat]
      ELSE [rut |-> [Number |-> a.num, DV |-> sc.raw[n]], err |-> nil]

-----------------------------------------------------------------------------
(* CalculateDV *)

NextMultiplierIdx_Five(idx) == (idx + 1) % 5

NextMultiplierIdx(idx) == (idx + 1) % 6

RECURSIVE DVLoop(_, _, _)
DVLoop(number, sum, multiplierIdx) ==
  IF number > 0
    THEN DVLoop(number \div 10,
                sum + (number % 10) * multipliers[multiplierIdx + 1],
                NextMultiplierIdx(multiplierIdx))
    ELSE sum

CalculateDV(number) ==
  IF number = 0 THEN "0"
  ELSE LET sum == DVLoop(number, 0, 0)
           remainder == sum % 11
           checkResult == 11 - remainder
       IN  IF checkResult = 11 THEN "0"
           ELSE IF checkResult = 10 THEN "K"
           ELSE ByteOf(checkResult + 48)

-----------------------------------------------------------------------------
(* RUT.Format, RUT.String, RUT.Validate, Format, Validate *)

DotAfter_NoPositive(distFromEnd) == distFromEnd % 3 = 0

DotAfter(distFromEnd) == distFromEnd > 0 /\ distFromEnd % 3 = 0

\* The loop of the FormatComplete branch from index i (0-based, as in the
\* source) with the builder's content b.
RECURSIVE CompleteLoop(_, _, _)
CompleteLoop(numStr, i, b) ==
  IF i >= Len(numStr) THEN b
  ELSE LET n == Len(numStr)
           distFromEnd == n - i - 1
           b1 == Append(b, numStr[i + 1])
       IN  CompleteLoop(numStr, i + 1,
                        IF DotAfter(distFromEnd) THEN Append(b1, ".") ELSE b1)

RUTFormat(r, st) ==
  LET numStr == Itoa(r.Number) IN
  IF st = FormatEscaped THEN Append(numStr, r.DV)
  ELSE IF st = FormatWithDash THEN Append(Append(numStr, "-"), r.DV)
  ELSE Append(Append(CompleteLoop(numStr, 0, <<>>), "-"), r.DV)

String(r) == RUTFormat(r, FormatComplete)

RUTValidate_AllowZero(r) ==
  IF r.Number < 0 THEN FALSE ELSE r.DV = CalculateDV(r.Number)

RUTValidate(r) ==
  IF r.Number <= 0 THEN FALSE ELSE r.DV = CalculateDV(r.Number)

Validate(s) ==
  LET p == Parse(s) IN IF p.err # nil THEN FALSE ELSE RUTValidate(p.rut)

Format(s, st) ==
  LET p == Parse(s) IN
  IF p.err # nil THEN [out |-> <<>>, err |-> p.err]
  ELSE [out |-> RUTFormat(p.rut, st), err |-> nil]

-----------------------------------------------------------------------------
(* Inputs *)

MaxTail == 2
MaxPad == 13
MaxDelta == 3
MaxMant == 12
MaxNeg == 2

Styles == {FormatComplete, FormatEscaped, FormatWithDash, 3}
\* The style recorded for a call that takes none: the zero FormatStyle.
NoStyle == FormatComplete

TailChars == {"0", "9", "K", "k", ".", "-", "x"}
Tails == UNION {[1..n -> TailChars] : n \in 0..MaxTail}
Rep(c, k) == [i \in 1..k |-> c]
Pads == {p \in (0..MaxPad) \X (0..MaxPad) : p[1] + p[2] <= MaxPad}

\* Texts handed to Parse, Validate and Format: a run of "1", any short
\* string over the alphabet, a run of "1"; and the same after leading zeros.
TextInputs ==
  {Rep("1", p[1]) \o t \o Rep("1", p[2]) : p \in Pads, t \in Tails}
    \cup {Rep("0", j) \o t : j \in 1..MaxPad, t \in Tails}

RECURSIVE Pow10(_)
Pow10(e) == IF e = 0 THEN 1 ELSE 10 * Pow10(e - 1)

TestBodies == {12345678, 7654321, 11111111, 1009, 14555848, 0}

Bodies ==
  {Pow10(e) + d : e \in 0..9, d \in (0 - MaxDelta)..MaxDelta}
    \cup {a * Pow10(e) : a \in 1..MaxMant, e \in 0..8}
    \cup ((0 - MaxNeg)..0)
    \cup TestBodies

DVInputs == DigitSet \cup {"K", "k"}

RUTInputs == {[Number |-> b, DV |-> d] : b \in Bodies, d \in DVInputs}

-----------------------------------------------------------------------------
(* The caller: one call of the package per step.  text is the string in    *)
(* hand (an argument, or the last string returned), rut the RUT in hand    *)
(* (a receiver, or the last RUT returned), err, ok and dv the last call's    *)
(* error, boolean and byte results (nil, FALSE and NUL when it returns     *)
(* none), op and style the call made.                                      *)

TypeOK ==
  /\ text \in Seq(DigitSet \cup {"K", "k", ".", "-", "x", NUL})
  /\ rut \in [Number : Int, DV : DigitSet \cup {"K", "k", NUL}]
  /\ err \in {nil, ErrInvalidFormat, ErrEmptyRUT, ErrTooShort, ErrTooLong}
  /\ ok \in BOOLEAN
  /\ dv \in DigitSet \cup {"K", NUL}
  /\ style \in Styles
  /\ op \in {"init", "Parse", "Validate", "Format", "CalculateDV",
             "RUT.Format", "RUT.String", "RUT.Validate"}

InitText ==
  /\ text \in TextInputs
  /\ rut = ZeroRUT
  /\ err = nil /\ ok = FALSE /\ dv = NUL /\ style = NoStyle /\ op = "init"

InitRUT ==
  /\ text = <<>>
  /\ rut \in RUTInputs
  /\ err = nil /\ ok = FALSE /\ dv = NUL /\ style = NoStyle /\ op = "init"

\* r, err := Parse(text)
ParseAct ==
  /\ rut' = Parse(text).rut
  /\ err' = Parse(text).err
  /\ ok' = FALSE /\ dv' = NUL /\ style' = NoStyle /\ op' = "Parse"
  /\ UNCHANGED text

\* ok := Validate(text)
ValidateAct ==
  /\ ok' = Validate(text)
  /\ err' = nil /\ dv' = NUL /\ style' = NoStyle /\ op' = "Validate"
  /\ UNCHANGED <<text, rut>>

\* text, err = Format(text, st)
FormatAct ==
  \E st \in Styles :
    /\ text' = Format(text, st).out
    /\ err' = Format(text, st).err
    /\ ok' = FALSE /\ dv' = NUL /\ style' = st /\ op' = "Format"
    /\ UNCHANGED rut

\* dv := CalculateDV(rut.Number)
CalculateDVAct ==
  /\ dv' = CalculateDV(rut.Number)
  /\ err' = nil /\ ok' = FALSE /\ style' = NoStyle /\ op' = "CalculateDV"
  /\ UNCHANGED <<text, rut>>

\* text = rut.Format(st)
RUTFormatAct ==
  \E st \in Styles :
    /\ text' = RUTFormat(rut, st)
    /\ err' = nil /\ ok' = FALSE /\ dv' = NUL /\ style' = st /\ op' = "RUT.Format"
    /\ UNCHANGED rut

\* text = rut.String()
RUTStringAct ==
  /\ text' = String(rut)
  /\ err' = nil /\ ok' = FALSE /\ dv' = NUL /\ style' = NoStyle /\ op' = "RUT.String"
  /\ UNCHANGED rut

\* ok := rut.Validate()
RUTValidateAct ==
  /\ ok' = RUTValidate(rut)
  /\ err' = nil /\ dv' = NUL /\ style' = NoStyle /\ op' = "RUT.Validate"
  /\ UNCHANGED <<text, rut>>

\* Calls on strings, starting from an input text.
Next == ParseAct \/ ValidateAct \/ FormatAct

Spec == InitText /\ [][Next]_vars

\* Calls on RUT values, starting from a RUT built by the caller; the string
\* rendered may be parsed and validated again.
NextRUT ==
  \/ CalculateDVAct
  \/ RUTFormatAct
  \/ RUTStringAct
  \/ RUTValidateAct
  \/ ParseAct
  \/ ValidateAct

SpecRUT == InitRUT /\ [][NextRUT]_vars

-----------------------------------------------------------------------------
(* Vocabulary of the claims *)

Separators == {".", "-"}
Alphabet == DigitSet \cup {"k", "K"}
NotSeparator(c) == c \notin Separators
NotDot(c) == c # "."

\* The meaningful characters of s: s with every separator deleted.
Meaningful(s) == SelectSeq(s, NotSeparator)

\* s with the character c inserted after its first i characters.
Insert(s, i, c) == SubSeq(s, 1, i) \o <<c>> \o SubSeq(s, i + 1, Len(s))

\* A 'K' or 'k' among the meaningful characters m, the last one excepted.
LetterBeforeEnd(m) == \E i \in 1..(Len(m) - 1) : m[i] \in {"k", "K"}

\* The mod-11 check character read off the decimal digits of body >= 0:
\* digit i from the right (i = 0 the least significant) has weight
\* W[i mod 6].
RefWeights == <<2, 3, 4, 5, 6, 7>>

RECURSIVE RefSum(_, _)
RefSum(digits, i) ==
  IF i >= Len(digits) THEN 0
  ELSE DigitVal(digits[Len(digits) - i]) * RefWeights[(i % 6) + 1]
         + RefSum(digits, i + 1)

RefDV(body) ==
  IF body = 0 THEN "0"
  ELSE LET result == 11 - (RefSum(Itoa(body), 0) % 11)
       IN  IF result = 11 THEN "0"
           ELSE IF result = 10 THEN "K"
           ELSE DigitChars[result + 1]

\* The error Parse is to return for s, by the priority order of its checks.
RefOutcome(s) ==
  LET m == Meaningful(s) IN
  IF s = <<>> THEN ErrEmptyRUT
  ELSE IF \E i \in 1..Len(m) : i <= 12 /\ m[i] \notin Alphabet THEN ErrInvalidFormat
  ELSE IF Len(m) >= 13 THEN ErrTooLong
  ELSE IF Len(m) < 5 THEN ErrTooShort
  ELSE IF Len(m) > 10 THEN ErrTooLong
  ELSE IF LetterBeforeEnd(m) THEN ErrInvalidFormat
  ELSE nil

-----------------------------------------------------------------------------
(* Claims *)

\* C1 (as stated): for every RUT r that is valid (r.Number > 0 and
\* r.DV = CalculateDV(r.Number)) and each of the three styles,
\* Parse(r.Format(style)) succeeds and returns r.
C1_RoundTripAnyBody ==
  [][(/\ op = "RUT.Format" /\ style \in {FormatComplete, FormatEscaped, FormatWithDash}
      /\ RUTValidate(rut)
      /\ op' = "Parse")
     => (err' = nil /\ rut' = rut)]_vars

\* C1 (amended): the round trip holds for every valid RUT whose Number has
\* 4 to 9 decimal digits, in each of the three styles.
C1_RoundTrip ==
  [][(/\ op = "RUT.Format" /\ style \in {FormatComplete, FormatEscaped, FormatWithDash}
      /\ RUTValidate(rut)
      /\ Len(Itoa(rut.Number)) + 1 \in 5..10
      /\ op' = "Parse")
     => (err' = nil /\ rut' = rut)]_vars

\* C1 witness: a valid RUT rendered with the dash only has been parsed back.
C1_Witness ==
  /\ op = "Parse" /\ err = nil
  /\ RUTValidate(rut)
  /\ rut.Number >= 1000000
  /\ text = RUTFormat(rut, FormatWithDash)

\* C2: Validate(text) is true exactly when Parse(text) succeeds with
\* Number > 0 and DV = CalculateDV(Number); it is false on every parse error
\* and for Number <= 0.
C2_Validate ==
  op = "Validate" =>
    LET p == Parse(text) IN
    /\ ok = (p.err = nil /\ p.rut.Number > 0 /\ p.rut.DV = CalculateDV(p.rut.Number))
    /\ (p.err # nil => ok = FALSE)
    /\ (p.rut.Number <= 0 => ok = FALSE)

\* C2 witness: Validate has accepted a text written with separators.
C2_Witness ==
  /\ op = "Validate" /\ ok = TRUE
  /\ Len(Meaningful(text)) < Len(text)

\* C3: CalculateDV(body) is the reference mod-11 check character for every
\* body >= 0 ('0' for body 0), and is one of '0'..'9', 'K'.
C3_CalculateDV ==
  (op = "CalculateDV" /\ rut.Number >= 0) =>
    /\ dv = RefDV(rut.Number)
    /\ dv \in DigitSet \cup {"K"}

\* C3 witness: CalculateDV has returned 'K' for a body of more than six
\* digits (the weights have cycled).
C3_Witness ==
  /\ op = "CalculateDV" /\ dv = "K"
  /\ rut.Number >= 1000000

\* C4 (as stated): fewer than 5 meaningful characters give ErrTooShort, more
\* than 10 give ErrTooLong, exactly 5 and exactly 10 are accepted.
C4_LengthAnyInput ==
  op = "Parse" =>
    LET n == Len(Meaningful(text)) IN
    /\ (n < 5 => err = ErrTooShort)
    /\ (n > 10 => err = ErrTooLong)
    /\ (n \in {5, 10} => err = nil)

\* C4 (amended): for a non-empty text whose meaningful characters are all
\* digits or 'k'/'K', fewer than 5 of them give ErrTooShort and more than 10
\* give ErrTooLong; exactly 5 and exactly 10 are accepted when no 'k'/'K'
\* stands before the last one.
C4_Length ==
  (/\ op = "Parse" /\ text # <<>>
   /\ \A i \in 1..Len(Meaningful(text)) : Meaningful(text)[i] \in Alphabet) =>
    LET m == Meaningful(text)
        n == Len(m)
    IN
    /\ (n < 5 => err = ErrTooShort)
    /\ (n > 10 => err = ErrTooLong)
    /\ ((n \in {5, 10} /\ ~LetterBeforeEnd(m)) => err = nil)

\* C4 witness: a text of exactly 10 meaningful characters was accepted
\* although its check digit is wrong.
C4_Witness ==
  /\ op = "Parse" /\ err = nil
  /\ Len(Meaningful(text)) = 10
  /\ rut.Number > 0 /\ ~RUTValidate(rut)

\* C5 (as stated): a 'K' or 'k' anywhere but the final meaningful position
\* gives ErrInvalidFormat.
C5_LetterAnyLength ==
  (op = "Parse" /\ LetterBeforeEnd(Meaningful(text))) => err = ErrInvalidFormat

\* C5 (amended): in a text of 5 to 10 meaningful characters, a 'K' or 'k'
\* anywhere but the final meaningful position gives ErrInvalidFormat.
C5_Letter ==
  (/\ op = "Parse" /\ LetterBeforeEnd(Meaningful(text))
   /\ Len(Meaningful(text)) \in 5..10) => err = ErrInvalidFormat

\* C5 witness: a lower-case 'k' in the first of 10 meaningful characters,
\* all others digits, was rejected.
C5_Witness ==
  /\ op = "Parse" /\ err = ErrInvalidFormat
  /\ Len(Meaningful(text)) = 10
  /\ Meaningful(text)[1] = "k"
  /\ \A i \in 2..10 : Meaningful(text)[i] \in DigitSet

\* C6: Parse's outcome on a non-empty text does not change when one more
\* separator is written anywhere in it, nor when all its separators are
\* deleted (some character remaining); so non-empty texts with the same
\* meaningful characters parse alike.
C6_Separators ==
  (op = "Parse" /\ text # <<>>) =>
    /\ \A i \in 0..Len(text) : \A c \in Separators :
         Parse(Insert(text, i, c)) = [rut |-> rut, err |-> err]
    /\ (Meaningful(text) # <<>> =>
         Parse(Meaningful(text)) = [rut |-> rut, err |-> err])

\* C6 witness: a text holding both a '.' and a '-' was parsed successfully.
C6_Witness ==
  /\ op = "Parse" /\ err = nil
  /\ \E i \in 1..Len(text) : text[i] = "."
  /\ \E i \in 1..Len(text) : text[i] = "-"

\* C7: the Complete rendering of an accepted text is stable: formatting it
\* again in Complete style succeeds and returns the same text.
C7_Idempotent ==
  [][(/\ op = "Format" /\ style = FormatComplete /\ err = nil
      /\ op' = "Format" /\ style' = FormatComplete)
     => (err' = nil /\ text' = text)]_vars

\* C8: the Number of every RUT Parse returns is non-negative and has 4 to 9
\* decimal digits (5 to 10 characters with the check character).
C8_BodyDigits ==
  (op = "Parse" /\ err = nil) =>
    /\ rut.Number >= 0
    /\ Len(Itoa(rut.Number)) + 1 \in 5..10

\* C9: for Number >= 0 the Complete rendering is the digits of Number with
\* a '.' before every group of three counted from the right (never first),
\* then '-' and the DV; without its dots it is the WithDash rendering, and
\* without dots and dash the Escaped rendering.
C9_Complete ==
  (op = "RUT.Format" /\ style = FormatComplete /\ rut.Number >= 0) =>
    LET n == Len(text)
        body == SubSeq(text, 1, n - 2)
    IN
    /\ n >= 3 /\ text[n] = rut.DV /\ text[n - 1] = "-"
    /\ SelectSeq(body, NotDot) = Itoa(rut.Number)
    /\ body[1] # "."
    /\ \A i \in 1..Len(body) : (body[i] = ".") <=> ((Len(body) - i + 1) % 4 = 0)
    /\ SelectSeq(text, NotDot) = RUTFormat(rut, FormatWithDash)
    /\ Meaningful(text) = RUTFormat(rut, FormatEscaped)

\* C9 witness: a Number of seven or more digits was rendered in Complete
\* style (two dots or more).
C9_Witness ==
  /\ op = "RUT.Format" /\ style = FormatComplete
  /\ rut.Number >= 1000000
  /\ Len(text) >= Len(Itoa(rut.Number)) + 4

====
